---------------------------- MODULE Spec2Model ----------------------------
(***************************************************************************)
(* A model of the TrendStory microservice: the two Generate handlers      *)
(* (grpc_server.py and trendstory/service.py), the trends fetcher with    *)
(* the NewsAPI loader, the mood recognizer, the LLM engine and            *)
(* retry_async.  Spec has the handlers; the other specifications have the *)
(* components called directly: EngineSpec concurrent generate_story       *)
(* calls, StorySpec and InitSpec one generate_story or initialize call at *)
(* a time, MoodSpec recognize_mood, FetchSpec fetch_trends, RetrySpec     *)
(* retry_async.                                                           *)
(*                                                                         *)
(* Python values are rendered as follows.  None is the string "None"      *)
(* where the other values are strings, and a record field where they are  *)
(* lists.  A string whose characters matter (the backend's answer to the  *)
(* theme prompt) is a sequence of one-character strings.  A publish        *)
(* timestamp is its age in days relative to the current time (negative:   *)
(* in the future).  A confidence is given in tenths.                      *)
(***************************************************************************)
EXTENDS Integers, Sequences, FiniteSets, TLC

(***************************************************************************)
(* Bounds of the model.                                                    *)
(***************************************************************************)
\* the largest limit a request carries
MaxLimit == 2
\* the largest number of articles in one provider response
MaxArticles == 1
\* the number of generate_story calls that may run concurrently on one engine
MaxCallers == 2
\* the largest number of images in one call of recognize_mood
MaxImages == 2
\* the largest number of direct calls of initialize on one engine
MaxInitCalls == 3
\* the largest max_retries passed to retry_async
MaxRetries == 3

(***************************************************************************)
(* Program constants.                                                      *)
(***************************************************************************)
\* config.py: DEFAULT_TRENDS_LIMIT
DEFAULT_TRENDS_LIMIT == 5
\* config.py: SUPPORTED_SOURCES
SUPPORTED_SOURCES == {"youtube", "google"}
\* config.py: SUPPORTED_THEMES
SUPPORTED_THEMES == {"comedy", "tragedy", "sarcasm", "mystery", "romance", "sci-fi"}
\* config.py: the keys of PROMPT_TEMPLATES
PROMPT_TEMPLATES == SUPPORTED_THEMES \cup {"default"}
\* trends_fetcher.py: self.topic_categories
topic_categories ==
    {"business", "technology", "science", "health", "entertainment", "sports", "general"}
\* trends_fetcher.py: random.sample(self.topic_categories, min(3, len(...)))
NumSampled == 3
\* news_api_loader.py: timedelta(days=30)
StaleDays == 30
\* mood_recognizer.py: self.confidence_threshold = 0.4, in tenths
confidence_threshold == 4
\* utils.py: retry_async: backoff_factor: float = 2.0
backoff_factor == 2

Min(a, b) == IF a < b THEN a ELSE b
Max(a, b) == IF a > b THEN a ELSE b

(***************************************************************************)
(* Python list operations.                                                 *)
(***************************************************************************)
\* seq[:n], for any integer n
Slice(seq, n) ==
    IF n >= 0 THEN SubSeq(seq, 1, Min(n, Len(seq)))
    ELSE SubSeq(seq, 1, Max(Len(seq) + n, 0))

Range(seq) == {seq[i] : i \in 1..Len(seq)}

\* list(dict.fromkeys(seq)): the first occurrence of each element, in order
RECURSIVE DedupFrom(_, _)
DedupFrom(seq, seen) ==
    IF seq = <<>> THEN <<>>
    ELSE IF Head(seq) \in seen THEN DedupFrom(Tail(seq), seen)
    ELSE <<Head(seq)>> \o DedupFrom(Tail(seq), seen \cup {Head(seq)})

Dedup(seq) == DedupFrom(seq, {})

NoDuplicates(seq) == \A i, j \in 1..Len(seq) : seq[i] = seq[j] => i = j

\* the sequences over S of length at most n
SeqsUpTo(S, n) == UNION {[1..k -> S] : k \in 0..n}

(***************************************************************************)
(* Python string operations on sequences of characters.                    *)
(***************************************************************************)
Whitespace == {" ", "\n", "\t"}

UpperChars == <<"C", "O", "M", "E", "D", "Y", "T", "R", "A", "G", "S", "I", "F", "H">>
LowerChars == <<"c", "o", "m", "e", "d", "y", "t", "r", "a", "g", "s", "i", "f", "h">>

\* str.lower() on one character
LowerChar(c) ==
    IF \E i \in 1..Len(UpperChars) : UpperChars[i] = c
    THEN LowerChars[CHOOSE i \in 1..Len(UpperChars) : UpperChars[i] = c]
    ELSE c

\* str.lower()
Lower(s) == [i \in 1..Len(s) |-> LowerChar(s[i])]

RECURSIVE LStrip(_)
LStrip(s) ==
    IF s # <<>> /\ Head(s) \in Whitespace THEN LStrip(Tail(s)) ELSE s

RECURSIVE RStrip(_)
RStrip(s) ==
    IF s # <<>> /\ s[Len(s)] \in Whitespace THEN RStrip(SubSeq(s, 1, Len(s) - 1)) ELSE s

\* str.strip()
Strip(s) == RStrip(LStrip(s))

\* the characters of each supported theme
ThemeChars ==
    "comedy"  :> <<"c", "o", "m", "e", "d", "y">> @@
    "tragedy" :> <<"t", "r", "a", "g", "e", "d", "y">> @@
    "sarcasm" :> <<"s", "a", "r", "c", "a", "s", "m">> @@
    "mystery" :> <<"m", "y", "s", "t", "e", "r", "y">> @@
    "romance" :> <<"r", "o", "m", "a", "n", "c", "e">> @@
    "sci-fi"  :> <<"s", "c", "i", "-", "f", "i">>

\* s in settings.SUPPORTED_THEMES, for a string given by its characters
InSupportedThemes(s) == \E t \in SUPPORTED_THEMES : ThemeChars[t] = s

\* the supported theme spelled by s
ThemeOf(s) == CHOOSE t \in SUPPORTED_THEMES : ThemeChars[t] = s


(***************************************************************************)
(* The news provider: articles, and what an HTTP request to it can give.   *)
(***************************************************************************)
\* the unwanted phrase that the lower-cased title contains, "" for none
\* (trends_fetcher.py: any(phrase in title.lower() for phrase in [...]))
UnwantedPhraseIn ==
    "" :> "" @@ "Trend A" :> "" @@ "Trend B" :> "" @@ "NASDAQ closes higher" :> "nasdaq"

Titles == DOMAIN UnwantedPhraseIn

\* an article: its title ("" when absent), and its publishedAt: absent ("none"),
\* unparsable ("invalid") or a date with its age in days
Article(t, p, a) == [title |-> t, pub |-> p, age |-> a]

Articles ==
    { Article("Trend A", "date", 0), Article("Trend B", "date", StaleDays),
      Article("Trend B", "date", StaleDays + 1), Article("Trend A", "date", -1),
      Article("Trend B", "none", 0), Article("Trend A", "invalid", 0),
      Article("", "date", 0), Article("NASDAQ closes higher", "date", 0) }

\* requests.get(url, params): a transport error, or a status with a body
ProviderResponses ==
    { [kind |-> "exception", status |-> 0, articles |-> <<>>],
      [kind |-> "http", status |-> 500, articles |-> <<>>] }
    \cup { [kind |-> "http", status |-> 200, articles |-> as] :
             as \in SeqsUpTo(Articles, MaxArticles) }

\* FilterByDate without the check of the article's age
RECURSIVE FilterByDate_NoStaleness(_)
FilterByDate_NoStaleness(articles) ==
    IF articles = <<>> THEN <<>>
    ELSE LET article == Head(articles)
             rest == FilterByDate_NoStaleness(Tail(articles))
         IN  IF article.pub = "none" THEN rest
             ELSE IF article.pub = "invalid" THEN rest
             ELSE IF article.age < 0 THEN rest
             ELSE <<article>> \o rest

\* news_api_loader.py: the date filter of fetch_news over the response's articles
RECURSIVE FilterByDate(_)
FilterByDate(articles) ==
    IF articles = <<>> THEN <<>>
    ELSE LET article == Head(articles)
             rest == FilterByDate(Tail(articles))
         IN  IF article.pub = "none" THEN rest
             ELSE IF article.pub = "invalid" THEN rest
             ELSE IF article.age < 0 THEN rest
             ELSE IF article.age > StaleDays THEN rest
             ELSE <<article>> \o rest

\* news_api_loader.py: fetch_news; None is [none |-> TRUE]
fetch_news(resp) ==
    IF resp.kind = "exception" THEN [none |-> TRUE, list |-> <<>>]
    ELSE IF resp.status = 200
         THEN [none |-> FALSE, list |-> FilterByDate(resp.articles)]
         ELSE [none |-> TRUE, list |-> <<>>]

\* trends_fetcher.py: the titles kept from one category's articles
RECURSIVE ExtractTrends(_)
ExtractTrends(articles) ==
    IF articles = <<>> THEN <<>>
    ELSE LET article == Head(articles)
             rest == ExtractTrends(Tail(articles))
         IN  IF article.title = "" THEN rest
             ELSE IF article.pub = "date" /\ article.age < 0 THEN rest
             ELSE IF article.pub = "invalid" THEN rest
             ELSE IF UnwantedPhraseIn[article.title] # "" THEN rest
             ELSE <<article.title>> \o rest

\* trends_fetcher.py: what one category adds to all_trends
CategoryTrends(news) ==
    IF news.none THEN <<>>
    ELSE IF news.list # <<>> THEN ExtractTrends(news.list)
    ELSE <<>>

\* UniqueLimited without the removal of duplicates
UniqueLimited_NoDedup(trends, limit) ==
    IF trends = <<>> THEN <<>> ELSE Slice(trends, limit)

\* trends_fetcher.py: "Deduplicate and limit" at the end of a source's fetch
UniqueLimited(trends, limit) ==
    LET unique_trends == Dedup(trends)
    IN  IF unique_trends = <<>> THEN <<>> ELSE Slice(unique_trends, limit)

\* trends_fetcher.py: fetch_trends, source "all": the limit of the first fetch
AllYoutubeLimit(limit) == limit \div 2

\* trends_fetcher.py: fetch_trends, source "all": the limit of the second fetch
AllGoogleLimit(limit, youtube) == limit - Len(youtube)

\* trends_fetcher.py: fetch_trends, source "all": the combined result
CombineAll(youtube, google, limit) == Slice(youtube \o google, limit)

\* FirstFetch with an unknown source selector falling back to the first source
FirstFetch_UnknownIsYoutube(source) ==
    IF source = "google" THEN "google" ELSE "youtube"

\* trends_fetcher.py: fetch_trends: the fetch a source selector starts with
FirstFetch(source) ==
    IF source = "youtube" THEN "youtube"
    ELSE IF source = "google" THEN "google"
    ELSE IF source = "all" THEN "youtube"
    ELSE "google"

(***************************************************************************)
(* The mood recognizer.                                                    *)
(***************************************************************************)
\* mood_recognizer.py: self.emotion_map
emotion_map ==
    "angry" :> "angry" @@ "disgust" :> "negative" @@ "fear" :> "anxious" @@
    "happy" :> "happy" @@ "sad" :> "sad" @@ "surprise" :> "excited" @@
    "neutral" :> "neutral"

\* the labels the classifier may report; "contempt" is not in emotion_map
Labels == {"happy", "disgust", "neutral", "contempt"}

Confidences == {confidence_threshold - 1, confidence_threshold, confidence_threshold + 1}

Emotion(l, c) == [label |-> l, conf |-> c]

\* the emotion distributions the classifier may report, as dict items in order
EmotionLists ==
    { <<Emotion(l, c)>> : l \in Labels, c \in Confidences }
    \cup { <<Emotion(l1, c1), Emotion(l2, c2)>> :
             l1 \in {"happy", "neutral"}, l2 \in {"disgust", "contempt"},
             c1 \in Confidences, c2 \in Confidences }

\* os.path.exists inside recognize_mood, then DeepFace.analyze: the file is gone,
\* the classifier raises, gives no result, gives no emotions, or gives scores
Analyses ==
    { [kind |-> k, emotions |-> <<>>] : k \in {"missing", "raise", "empty", "noemotions"} }
    \cup { [kind |-> "scores", emotions |-> es] : es \in EmotionLists }

\* max(emotions.items(), key=lambda x: x[1]): the first item of the largest value
Dominant(emotions) ==
    LET i == CHOOSE i \in 1..Len(emotions) :
                 /\ \A j \in 1..Len(emotions) : emotions[j].conf <= emotions[i].conf
                 /\ \A j \in 1..(i - 1) : emotions[j].conf < emotions[i].conf
    IN  emotions[i]

\* recognize_mood with the threshold passed by a confidence equal to it
recognize_mood_AtThreshold(analysis) ==
    IF analysis.kind # "scores" THEN "neutral"
    ELSE LET dominant_emotion == Dominant(analysis.emotions)
         IN  IF dominant_emotion.conf >= confidence_threshold
             THEN IF dominant_emotion.label \in DOMAIN emotion_map
                  THEN emotion_map[dominant_emotion.label]
                  ELSE "neutral"
             ELSE "neutral"

\* mood_recognizer.py: recognize_mood for one path: the mood appended to moods
recognize_mood(analysis) ==
    IF analysis.kind # "scores" THEN "neutral"
    ELSE LET dominant_emotion == Dominant(analysis.emotions)
         IN  IF dominant_emotion.conf > confidence_threshold
             THEN IF dominant_emotion.label \in DOMAIN emotion_map
                  THEN emotion_map[dominant_emotion.label]
                  ELSE "neutral"
             ELSE "neutral"

\* what the images of a direct call of recognize_mood may give: every label of
\* emotion_map and one outside it, alone or in pairs, ties included
DirectAnalyses ==
    { [kind |-> k, emotions |-> <<>>] : k \in {"missing", "raise", "empty", "noemotions"} }
    \cup { [kind |-> "scores", emotions |-> <<Emotion(l, c)>>] :
             l \in (DOMAIN emotion_map) \cup {"contempt"}, c \in Confidences }
    \cup { [kind |-> "scores", emotions |-> <<Emotion(l1, c1), Emotion(l2, c2)>>] :
             l1 \in {"fear", "happy"}, l2 \in {"surprise", "contempt"},
             c1 \in {confidence_threshold, confidence_threshold + 1},
             c2 \in {confidence_threshold, confidence_threshold + 1} }

\* mood_recognizer.py: recognize_mood: the branch that decided the mood
AnalysisOutcome(analysis) ==
    IF analysis.kind # "scores" THEN analysis.kind
    ELSE IF Dominant(analysis.emotions).conf <= confidence_threshold THEN "low"
    ELSE IF Dominant(analysis.emotions).label \notin DOMAIN emotion_map THEN "unmapped"
    ELSE "mapped"

(***************************************************************************)
(* The LLM engine.                                                         *)
(***************************************************************************)
\* the texts the backend may give in "response" to the theme prompt
ThemeTexts ==
    { ThemeChars["comedy"], ThemeChars["tragedy"], ThemeChars["sci-fi"],
      <<" ", "T", "r", "a", "g", "e", "d", "y", "\n">>,
      <<"S", "C", "I", "-", "F", "I">>,
      <<"M", "y", "s", "t", "e", "r", "y", " ">>,
      <<"h", "o", "r", "r", "o", "r">>,
      <<"c", "o", "m", "e", "d", "y", ".">>,
      <<" ">>, <<>> }

\* self.session.post(...): a transport error, or a status with a response text
ThemeAnswers ==
    { [kind |-> "exception", status |-> 0, text |-> <<>>],
      [kind |-> "http", status |-> 500, text |-> <<>>] }
    \cup { [kind |-> "http", status |-> 200, text |-> t] : t \in ThemeTexts }

\* the texts the backend may give in "response" to the story prompt
StoryTexts == {"A generated story.", ""}

StoryAnswers ==
    { [kind |-> "exception", status |-> 0, text |-> ""],
      [kind |-> "http", status |-> 500, text |-> ""] }
    \cup { [kind |-> "http", status |-> 200, text |-> t] : t \in StoryTexts }

\* select_theme_for_mood without the lower-casing of the backend's token
select_theme_for_mood_NoLower(sess, answer) ==
    IF sess # "open" THEN "comedy"
    ELSE IF answer.kind = "exception" THEN "comedy"
    ELSE IF answer.status # 200 THEN "comedy"
    ELSE LET chosen == Strip(answer.text)
         IN  IF InSupportedThemes(chosen) THEN ThemeOf(chosen) ELSE "comedy"

\* llm_engine.py: select_theme_for_mood, on a session in state sess
select_theme_for_mood(sess, answer) ==
    IF sess # "open" THEN "comedy"
    ELSE IF answer.kind = "exception" THEN "comedy"
    ELSE IF answer.status # 200 THEN "comedy"
    ELSE LET chosen == Lower(Strip(answer.text))
         IN  IF InSupportedThemes(chosen) THEN ThemeOf(chosen) ELSE "comedy"

\* llm_engine.py: generate_story: the prompt template used for a theme
TemplateFor(theme) == IF theme \in PROMPT_TEMPLATES THEN theme ELSE "default"

\* StoryOk without the check of the status
StoryOk_AnyStatus(answer) == answer.kind = "http"

\* llm_engine.py: generate_story: whether the story request succeeded
StoryOk(answer) == answer.kind = "http" /\ answer.status = 200

(***************************************************************************)
(* The orchestrators' pure parts.                                          *)
(***************************************************************************)
\* the themes a request may carry: empty, blank, supported, unsupported
RequestThemes == {"", " ", "comedy", "sci-fi", "not-a-real-theme"}

\* theme.strip(), for the themes a request may carry
StripTheme(theme) == IF theme = " " THEN "" ELSE theme

\* the image paths a request may carry: empty, blank, of no file, of a file
ImagePaths == {"", " ", "missing.jpg", "face.jpg"}

\* image_path.strip(), for the image paths a request may carry
StripPath(path) == IF path = " " THEN "" ELSE path

\* os.path.exists(image_path) in Generate
PathExists(path) == path = "face.jpg"

\* the sources a caller may name: supported, "all", unknown
Sources == {"youtube", "google", "all", "news"}

\* the sources a request to service.py may carry: empty, supported, unsupported
RequestSources == {"", "youtube", "news"}

Limits == -1..MaxLimit

\* grpc_server.py: Generate: detected_mood after recognize_mood returned moods
DetectedMood(moods) ==
    IF moods # <<>> /\ moods[1] # "error" THEN moods[1] ELSE "None"

\* AsksBackendForTheme without the check of the requested theme
AsksBackendForTheme_AnyTheme(theme, mood) == mood # "None"

\* grpc_server.py: Generate: whether the backend is asked to select the theme
AsksBackendForTheme(theme, mood) == theme = "" /\ mood # "None"

\* SelectedTheme with the mood consulted before the requested theme
SelectedTheme_MoodFirst(theme, mood, llm_theme) ==
    LET selected_theme ==
            IF mood # "None" THEN llm_theme
            ELSE IF theme = "" THEN "comedy"
            ELSE theme
    IN  IF selected_theme = "" \/ StripTheme(selected_theme) = ""
        THEN "comedy"
        ELSE selected_theme

\* grpc_server.py: Generate: selected_theme, where llm_theme is what
\* select_theme_for_mood returned when it was called
SelectedTheme(theme, mood, llm_theme) ==
    LET selected_theme ==
            IF theme = "" /\ mood # "None" THEN llm_theme
            ELSE IF theme = "" THEN "comedy"
            ELSE theme
    IN  IF selected_theme = "" \/ StripTheme(selected_theme) = ""
        THEN "comedy"
        ELSE selected_theme

\* service.py: Generate: the codes of the aborts that validation invokes when
\* abort returns
ValidationAborts(source, theme) ==
    (IF source = "" THEN <<"INVALID_ARGUMENT">> ELSE <<>>)
    \o (IF source \notin SUPPORTED_SOURCES THEN <<"INVALID_ARGUMENT">> ELSE <<>>)
    \o (IF theme # "" /\ theme \notin SUPPORTED_THEMES
        THEN <<"INVALID_ARGUMENT">> ELSE <<>>)

\* service.py: Generate: theme = request.theme if request.theme else "default"
ServiceTheme(theme) == IF theme # "" THEN theme ELSE "default"

\* service.py: Generate: limit = request.limit if request.limit > 0 else default
ServiceLimit(limit) == IF limit > 0 THEN limit ELSE DEFAULT_TRENDS_LIMIT

\* trendstory_pb2.GenerateResponse(): every field at its default
EmptyResponse ==
    [kind |-> "message", story |-> "", status_code |-> 0, error_message |-> "",
     topics_used |-> <<>>, theme |-> "", mood |-> "", detected_mood |-> ""]

\* no response (yet), and a handler left by an exception
NoResponse == [EmptyResponse EXCEPT !.kind = "none"]
RaisedResponse == [EmptyResponse EXCEPT !.kind = "raised"]

\* grpc_server.py: Generate: the response of a successful request
GrpcSuccessResponse(story, topics_, theme, mood) ==
    [kind |-> "message", story |-> story, status_code |-> 0, error_message |-> "",
     topics_used |-> topics_, theme |-> theme,
     mood |-> IF mood = "None" THEN "neutral" ELSE mood,
     detected_mood |-> IF mood = "None" THEN "neutral" ELSE mood]

\* grpc_server.py: Generate: the response of the except branch
GrpcErrorResponse(error_msg) ==
    [EmptyResponse EXCEPT !.status_code = 1, !.error_message = error_msg]

\* service.py: Generate: the response of a successful request
ServiceSuccessResponse(story, topics_, theme) ==
    [kind |-> "message", story |-> story, status_code |-> 0, error_message |-> "",
     topics_used |-> topics_, theme |-> theme, mood |-> "", detected_mood |-> ""]

\* llm_engine.py: generate_story: the returned dictionary or the RuntimeError
NoResult ==
    [kind |-> "none", story |-> "", theme |-> "", template |-> "", topics_used |-> <<>>,
     error |-> ""]

StoryResult(answer, theme, topics_) ==
    IF StoryOk(answer)
    THEN [kind |-> "ok", story |-> answer.text, theme |-> theme,
          template |-> TemplateFor(theme), topics_used |-> topics_, error |-> ""]
    ELSE [NoResult EXCEPT !.kind = "error",
                          !.error = "Error generating story with Dolphin LLM"]

InitFailedResult ==
    [NoResult EXCEPT !.kind = "error", !.error = "Failed to initialize Ollama connection"]

NoAnswer == [kind |-> "none", status |-> 0, text |-> <<>>]
NoStoryAnswer == [kind |-> "none", status |-> 0, text |-> ""]

NoFetch ==
    [source |-> "", limit |-> 0, phase |-> "none", sublimit |-> 0, i |-> 0,
     all_trends |-> <<>>, youtube_trends |-> <<>>, provider_ok |-> FALSE]

\* trends_fetcher.py: fetch_trends up to the first provider request;
\* provider_ok records whether some provider call has succeeded
StartFetch(source, limit) ==
    [source |-> source, limit |-> limit, phase |-> FirstFetch(source),
     sublimit |-> IF source = "all" THEN AllYoutubeLimit(limit) ELSE limit,
     i |-> 0, all_trends |-> <<>>, youtube_trends |-> <<>>, provider_ok |-> FALSE]

NoRequest == [theme |-> "", source |-> "", limit |-> 0, image_path |-> "",
              abort_raises |-> FALSE]

\* the generate_story calls that may run concurrently
Callers == 1..MaxCallers

\* generate_story is not running
NoCall == [pc |-> "idle", waited |-> FALSE, handshake |-> FALSE]

\* recognize_mood is not running
NoMoodRun == [pc |-> "idle", image_path |-> <<>>, moods |-> <<>>]

\* fetch_trends is not running
NoFetchRun ==
    [pc |-> "idle", source |-> "", limit |-> 0, phase |-> "none", sublimit |-> 0,
     answers |-> <<>>, asked |-> <<>>, youtube_answers |-> <<>>, youtube_trends |-> <<>>,
     topics |-> <<>>]

\* generate_story is not called directly
NoStoryRun ==
    [pc |-> "idle", topics |-> <<>>, theme |-> "None", mood |-> "None",
     theme_answer |-> NoAnswer, llm_theme |-> "None", used_theme |-> "None",
     story_answer |-> NoStoryAnswer, posts |-> <<>>, result |-> NoResult]

\* initialize is not called directly
NoInitRun ==
    [pc |-> "idle", was_initialized |-> FALSE, created |-> FALSE, sent |-> 0,
     answer |-> [kind |-> "none", status |-> 0], log |-> <<>>]

\* retry_async is not running
NoRetryRun ==
    [pc |-> "idle", max_retries |-> 0, retries |-> 0, current_delay |-> 0,
     outcomes |-> <<>>, slept |-> <<>>, result |-> "None"]

(***************************************************************************)
(* The state.                                                              *)
(***************************************************************************)
VARIABLES
    handler,        \* the entry point running: "none", "grpc", "service", "fetch"
    pc,             \* its position
    req,            \* the request
    detected_mood,  \* grpc_server.py: detected_mood
    analysis,       \* how recognize_mood came to its mood; "none": not called
    fetch,          \* fetch_trends' locals
    topics,         \* the topics fetch_trends returned
    selected_theme, \* grpc_server.py: selected_theme; service.py: theme
    theme_answer,   \* the backend's answer to the theme prompt
    story_answer,   \* the backend's answer to the story prompt
    result,         \* what generate_story returned or raised
    response,       \* what Generate returned
    ctx_code,       \* context.set_code
    aborts,         \* the codes of the context.abort calls, in order
    calls,          \* the downstream calls of the request, in order
    is_initialized, \* llm_engine.py: self.is_initialized
    session,        \* llm_engine.py: self.session: "None", "open", "closed"
    init_task,      \* llm_engine.py: self.init_task: "pending", "running", "done", "failed"
    callers,        \* the position of each concurrent generate_story call
    mood_run,       \* recognize_mood's argument and locals
    fetch_run,      \* a direct call of fetch_trends: arguments, locals, provider answers
    story_run,      \* a direct call of generate_story: arguments, locals, backend answers
    init_run,       \* a direct call of initialize: position and handshake answer
    retry_run       \* a call of retry_async: arguments, locals, outcomes of func

vars == <<handler, pc, req, detected_mood, analysis, fetch, topics, selected_theme,
          theme_answer, story_answer, result, response, ctx_code, aborts, calls,
          is_initialized, session, init_task, callers, mood_run, fetch_run, story_run,
          init_run, retry_run>>

request_vars == <<req, detected_mood, analysis, fetch, topics, selected_theme, theme_answer,
                  story_answer, result, response, ctx_code, aborts, calls>>

engine_vars == <<is_initialized, session, init_task>>

\* the state of the calls made on the engine and on the recognizer directly
call_vars == <<fetch_run, story_run, init_run, retry_run>>

direct_vars == <<callers, mood_run, call_vars>>

\* llm_engine.py: __init__; no request is running
Init ==
    /\ handler = "none"
    /\ pc = "idle"
    /\ req = NoRequest
    /\ detected_mood = "None"
    /\ analysis = "none"
    /\ fetch = NoFetch
    /\ topics = <<>>
    /\ selected_theme = ""
    /\ theme_answer = NoAnswer
    /\ story_answer = NoStoryAnswer
    /\ result = NoResult
    /\ response = NoResponse
    /\ ctx_code = "OK"
    /\ aborts = <<>>
    /\ calls = <<>>
    /\ is_initialized = FALSE
    /\ session = "None"
    /\ init_task = "pending"
    /\ callers = [c \in Callers |-> NoCall]
    /\ mood_run = NoMoodRun
    /\ fetch_run = NoFetchRun
    /\ story_run = NoStoryRun
    /\ init_run = NoInitRun
    /\ retry_run = NoRetryRun

(***************************************************************************)
(* llm_engine.py: the initialization task created by __init__.             *)
(***************************************************************************)
\* initialize() up to its handshake request
InitTaskStart ==
    /\ UNCHANGED direct_vars
    /\ init_task = "pending"
    /\ session' = "open"
    /\ init_task' = "running"
    /\ UNCHANGED <<handler, pc, request_vars, is_initialized>>

\* initialize() from the handshake's answer on
InitTaskFinish ==
    /\ UNCHANGED direct_vars
    /\ init_task = "running"
    /\ \E ok \in BOOLEAN :
         IF ok
         THEN /\ is_initialized' = TRUE
              /\ init_task' = "done"
              /\ UNCHANGED session
         ELSE /\ session' = "closed"
              /\ init_task' = "failed"
              /\ UNCHANGED is_initialized
    /\ UNCHANGED <<handler, pc, request_vars>>

(***************************************************************************)
(* trends_fetcher.py: fetch_trends.                                        *)
(***************************************************************************)
\* one iteration of "for category in categories" of the running source fetch;
\* the sampled category is a parameter of the request, whose answer is any
FetchCategory ==
    /\ UNCHANGED direct_vars
    /\ pc = "fetch"
    /\ fetch.i < NumSampled
    /\ \E resp \in ProviderResponses :
         fetch' = [fetch EXCEPT
                     !.i = @ + 1,
                     !.all_trends = @ \o CategoryTrends(fetch_news(resp)),
                     !.provider_ok = @ \/ ~fetch_news(resp).none]
    /\ calls' = Append(calls, "fetch_news")
    /\ UNCHANGED <<handler, pc, req, detected_mood, analysis, topics, selected_theme,
                   theme_answer, story_answer, result, response, ctx_code, aborts,
                   engine_vars>>

\* the provider call raises inside the source fetch: its except branch returns []
FetchCategoryRaises ==
    /\ UNCHANGED direct_vars
    /\ pc = "fetch"
    /\ fetch.i < NumSampled
    /\ fetch' = [fetch EXCEPT !.i = NumSampled, !.all_trends = <<>>]
    /\ calls' = Append(calls, "fetch_news")
    /\ UNCHANGED <<handler, pc, req, detected_mood, analysis, topics, selected_theme,
                   theme_answer, story_answer, result, response, ctx_code, aborts,
                   engine_vars>>

\* the end of a source fetch, and fetch_trends' use of what it returns
FetchReturn ==
    /\ UNCHANGED direct_vars
    /\ pc = "fetch"
    /\ fetch.i = NumSampled
    /\ LET trends == UniqueLimited(fetch.all_trends, fetch.sublimit)
       IN  IF fetch.source = "all" /\ fetch.phase = "youtube"
           THEN /\ fetch' = [fetch EXCEPT
                               !.phase = "google",
                               !.sublimit = AllGoogleLimit(fetch.limit, trends),
                               !.i = 0,
                               !.all_trends = <<>>,
                               !.youtube_trends = trends]
                /\ UNCHANGED <<pc, topics>>
           ELSE /\ topics' = IF fetch.source = "all"
                             THEN CombineAll(fetch.youtube_trends, trends, fetch.limit)
                             ELSE trends
                /\ fetch' = [fetch EXCEPT !.phase = "none"]
                /\ pc' = "fetched"
    /\ UNCHANGED <<handler, req, detected_mood, analysis, selected_theme, theme_answer,
                   story_answer, result, response, ctx_code, aborts, calls,
                   engine_vars>>

\* a caller of fetch_trends other than the two handlers
FetchCall ==
    /\ UNCHANGED direct_vars
    /\ pc = "idle"
    /\ \E source \in Sources, limit \in Limits :
         /\ fetch' = StartFetch(source, limit)
         /\ req' = [NoRequest EXCEPT !.source = source, !.limit = limit]
    /\ handler' = "fetch"
    /\ pc' = "fetch"
    /\ calls' = <<"fetch_trends">>
    /\ UNCHANGED <<detected_mood, analysis, topics, selected_theme, theme_answer,
                   story_answer, result, response, ctx_code, aborts, engine_vars>>

FetchDone ==
    /\ UNCHANGED direct_vars
    /\ handler = "fetch"
    /\ pc = "fetched"
    /\ pc' = "done"
    /\ UNCHANGED <<handler, request_vars, engine_vars>>

(***************************************************************************)
(* llm_engine.py: generate_story(topics, selected_theme, detected_mood).   *)
(***************************************************************************)
\* GenerateTheme with the mood consulted before the given theme
GenerateTheme_MoodFirst(theme, mood, llm_theme) ==
    IF mood # "None" THEN llm_theme
    ELSE IF theme = "" THEN "comedy"
    ELSE theme

\* generate_story: the theme used, where llm_theme is what
\* select_theme_for_mood returned when it was called
GenerateTheme(theme, mood, llm_theme) ==
    IF mood # "None" /\ theme = "" THEN llm_theme
    ELSE IF theme = "" THEN "comedy"
    ELSE theme

\* "if not self.is_initialized: await self.init_task", and on its failure the
\* call of initialize() up to the handshake request
GenAwaitInit ==
    /\ UNCHANGED direct_vars
    /\ pc = "init_wait"
    /\ is_initialized \/ init_task \in {"done", "failed"}
    /\ IF is_initialized \/ init_task = "done"
       THEN /\ pc' = "story"
            /\ UNCHANGED <<session, calls>>
       ELSE /\ session' = "open"
            /\ pc' = "reinit"
            /\ calls' = Append(calls, "handshake")
    /\ UNCHANGED <<handler, req, detected_mood, analysis, fetch, topics, selected_theme,
                   theme_answer, story_answer, result, response, ctx_code, aborts,
                   is_initialized, init_task>>

\* the retried initialize() from the handshake's answer on
GenReinit ==
    /\ UNCHANGED direct_vars
    /\ pc = "reinit"
    /\ \E ok \in BOOLEAN :
         IF ok
         THEN /\ is_initialized' = TRUE
              /\ pc' = "story"
              /\ UNCHANGED <<session, result>>
         ELSE /\ session' = "closed"
              /\ result' = InitFailedResult
              /\ pc' = "generated"
              /\ UNCHANGED is_initialized
    /\ UNCHANGED <<handler, req, detected_mood, analysis, fetch, topics, selected_theme,
                   theme_answer, story_answer, response, ctx_code, aborts, calls,
                   init_task>>

\* the theme, the prompt, the story request and the returned dictionary
GenStory ==
    /\ UNCHANGED direct_vars
    /\ pc = "story"
    /\ LET asks == detected_mood # "None" /\ selected_theme = ""
       IN  \E tanswer \in (IF asks THEN ThemeAnswers ELSE {theme_answer}),
              answer \in (IF session = "open"
                          THEN StoryAnswers
                          ELSE {a \in StoryAnswers : a.kind = "exception"}) :
             /\ theme_answer' = tanswer
             /\ story_answer' = answer
             /\ result' = StoryResult(
                            answer,
                            GenerateTheme(selected_theme, detected_mood,
                                          select_theme_for_mood(session, tanswer)),
                            topics)
             /\ calls' = calls \o (IF asks THEN <<"select_theme">> ELSE <<>>)
                               \o <<"story_post">>
    /\ pc' = "generated"
    /\ UNCHANGED <<handler, req, detected_mood, analysis, fetch, topics, selected_theme,
                   response, ctx_code, aborts, engine_vars>>

(***************************************************************************)
(* grpc_server.py: TrendStoryServicer.Generate.                            *)
(***************************************************************************)
\* request.source is only copied into the response's metadata
GrpcReceive ==
    /\ UNCHANGED direct_vars
    /\ pc = "idle"
    /\ \E theme \in RequestThemes, limit \in Limits, image_path \in ImagePaths :
         req' = [theme |-> theme, source |-> "youtube", limit |-> limit,
                 image_path |-> image_path, abort_raises |-> TRUE]
    /\ handler' = "grpc"
    /\ pc' = "mood"
    /\ UNCHANGED <<detected_mood, analysis, fetch, topics, selected_theme, theme_answer,
                   story_answer, result, response, ctx_code, aborts, calls,
                   engine_vars>>

\* "Recognize mood from image if provided", up to the first provider request of
\* fetch_trends("news", limit=request.limit)
GrpcMood ==
    /\ UNCHANGED direct_vars
    /\ handler = "grpc"
    /\ pc = "mood"
    /\ LET image_path == StripPath(req.image_path)
       IN  IF req.image_path # "" /\ image_path # "" /\ ~PathExists(image_path)
           THEN /\ ctx_code' = "INVALID_ARGUMENT"
                /\ response' = EmptyResponse
                /\ pc' = "done"
                /\ UNCHANGED <<detected_mood, analysis, fetch, calls>>
           ELSE /\ IF req.image_path # "" /\ image_path # ""
                   THEN /\ \E a \in Analyses :
                             /\ detected_mood' = DetectedMood(<<recognize_mood(a)>>)
                             /\ analysis' = AnalysisOutcome(a)
                        /\ calls' = <<"recognize_mood", "fetch_trends">>
                   ELSE /\ detected_mood' = "None"
                        /\ analysis' = "none"
                        /\ calls' = <<"fetch_trends">>
                /\ fetch' = StartFetch("news", req.limit)
                /\ pc' = "fetch"
                /\ UNCHANGED <<ctx_code, response>>
    /\ UNCHANGED <<handler, req, topics, selected_theme, theme_answer,
                   story_answer, result, aborts, engine_vars>>

\* "if not topics", then the theme selection up to the call of generate_story
GrpcTheme ==
    /\ UNCHANGED direct_vars
    /\ handler = "grpc"
    /\ pc = "fetched"
    /\ IF topics = <<>>
       THEN /\ ctx_code' = "INTERNAL"
            /\ response' = EmptyResponse
            /\ pc' = "done"
            /\ UNCHANGED <<selected_theme, theme_answer, calls>>
       ELSE /\ LET asks == AsksBackendForTheme(req.theme, detected_mood)
               IN  \E answer \in (IF ~asks THEN {NoAnswer}
                                  ELSE IF session = "open" THEN ThemeAnswers
                                  ELSE {a \in ThemeAnswers : a.kind = "exception"}) :
                     /\ theme_answer' = answer
                     /\ selected_theme' =
                            SelectedTheme(req.theme, detected_mood,
                                          select_theme_for_mood(session, answer))
                     /\ calls' = calls \o (IF asks THEN <<"select_theme">> ELSE <<>>)
                                       \o <<"generate_story">>
            /\ pc' = "init_wait"
            /\ UNCHANGED <<ctx_code, response>>
    /\ UNCHANGED <<handler, req, detected_mood, analysis, fetch, topics, story_answer,
                   result, aborts, engine_vars>>

\* the response after generate_story returned, or the except branch
GrpcRespond ==
    /\ UNCHANGED direct_vars
    /\ handler = "grpc"
    /\ pc = "generated"
    /\ IF result.kind = "ok"
       THEN /\ response' = GrpcSuccessResponse(result.story, topics, selected_theme,
                                               detected_mood)
            /\ UNCHANGED ctx_code
       ELSE /\ ctx_code' = "INTERNAL"
            /\ response' = GrpcErrorResponse(result.error)
    /\ pc' = "done"
    /\ UNCHANGED <<handler, req, detected_mood, analysis, fetch, topics, selected_theme,
                   theme_answer, story_answer, result, aborts, calls, engine_vars>>

(***************************************************************************)
(* trendstory/service.py: TrendStoryServicer.Generate.                     *)
(***************************************************************************)
\* context.abort(code) of the grpc runtime raises, the outer except branch
\* catches that and aborts again with INTERNAL: the codes of the two calls
AbortRaising(code) == <<code, "INTERNAL">>

SvcReceive ==
    /\ UNCHANGED direct_vars
    /\ pc = "idle"
    /\ \E theme \in RequestThemes, source \in RequestSources, limit \in Limits,
          abort_raises \in BOOLEAN :
         req' = [theme |-> theme, source |-> source, limit |-> limit,
                 image_path |-> "", abort_raises |-> abort_raises]
    /\ handler' = "service"
    /\ pc' = "validate"
    /\ UNCHANGED <<detected_mood, analysis, fetch, topics, selected_theme, theme_answer,
                   story_answer, result, response, ctx_code, aborts, calls,
                   engine_vars>>

\* "Validate request" and "Use defaults if not specified", up to the first
\* provider request of fetch_trends(request.source, limit)
SvcValidate ==
    /\ UNCHANGED direct_vars
    /\ handler = "service"
    /\ pc = "validate"
    /\ LET invalid == ValidationAborts(req.source, req.theme)
       IN  IF invalid # <<>> /\ req.abort_raises
           THEN /\ aborts' = AbortRaising(invalid[1])
                /\ response' = RaisedResponse
                /\ pc' = "done"
                /\ UNCHANGED <<selected_theme, fetch, calls>>
           ELSE /\ aborts' = invalid
                /\ selected_theme' = ServiceTheme(req.theme)
                /\ fetch' = StartFetch(req.source, ServiceLimit(req.limit))
                /\ calls' = <<"fetch_trends">>
                /\ pc' = "fetch"
                /\ UNCHANGED response
    /\ UNCHANGED <<handler, req, detected_mood, analysis, topics, theme_answer,
                   story_answer, result, ctx_code, engine_vars>>

\* the exceptions of fetch_trends that Generate handles by name
FetchErrors == {"ValueError", "RuntimeError"}

\* the code Generate aborts with for an exception of fetch_trends
FetchErrorCode(exc) == IF exc = "ValueError" THEN "INVALID_ARGUMENT" ELSE "INTERNAL"

\* self.trends_fetcher.fetch_trends raises (TrendsFetcher itself catches what
\* its provider calls raise; the fetcher installed by the tests raises):
\* "except ValueError" and "except RuntimeError"
SvcFetchRaises ==
    /\ UNCHANGED direct_vars
    /\ handler = "service"
    /\ pc = "fetch"
    /\ fetch.i = 0
    /\ \E exc \in FetchErrors :
         /\ fetch' = [fetch EXCEPT !.phase = exc]
         /\ IF req.abort_raises
            THEN /\ aborts' = aborts \o AbortRaising(FetchErrorCode(exc))
                 /\ response' = RaisedResponse
            ELSE /\ aborts' = Append(aborts, FetchErrorCode(exc))
                 /\ response' = EmptyResponse
    /\ pc' = "done"
    /\ UNCHANGED <<handler, req, detected_mood, analysis, topics, selected_theme,
                   theme_answer, story_answer, result, ctx_code, calls, engine_vars>>

\* the call of generate_story(topics, theme)
SvcGenerate ==
    /\ UNCHANGED direct_vars
    /\ handler = "service"
    /\ pc = "fetched"
    /\ calls' = Append(calls, "generate_story")
    /\ pc' = "init_wait"
    /\ UNCHANGED <<handler, req, detected_mood, analysis, fetch, topics, selected_theme,
                   theme_answer, story_answer, result, response, ctx_code, aborts,
                   engine_vars>>

\* the response after generate_story returned, or "except RuntimeError"
SvcRespond ==
    /\ UNCHANGED direct_vars
    /\ handler = "service"
    /\ pc = "generated"
    /\ IF result.kind = "ok"
       THEN /\ response' = ServiceSuccessResponse(result.story, topics, selected_theme)
            /\ UNCHANGED aborts
       ELSE IF req.abort_raises
       THEN /\ aborts' = aborts \o AbortRaising("INTERNAL")
            /\ response' = RaisedResponse
       ELSE /\ aborts' = Append(aborts, "INTERNAL")
            /\ response' = EmptyResponse
    /\ pc' = "done"
    /\ UNCHANGED <<handler, req, detected_mood, analysis, fetch, topics, selected_theme,
                   theme_answer, story_answer, result, ctx_code, calls, engine_vars>>

(***************************************************************************)
(* The request is over; the engine lives on.                               *)
(***************************************************************************)
Finish ==
    /\ UNCHANGED direct_vars
    /\ pc = "done"
    /\ handler' = "none"
    /\ pc' = "idle"
    /\ req' = NoRequest
    /\ detected_mood' = "None"
    /\ analysis' = "none"
    /\ fetch' = NoFetch
    /\ topics' = <<>>
    /\ selected_theme' = ""
    /\ theme_answer' = NoAnswer
    /\ story_answer' = NoStoryAnswer
    /\ result' = NoResult
    /\ response' = NoResponse
    /\ ctx_code' = "OK"
    /\ aborts' = <<>>
    /\ calls' = <<>>
    /\ UNCHANGED engine_vars

Next ==
    \/ InitTaskStart
    \/ InitTaskFinish
    \/ FetchCall
    \/ FetchCategory
    \/ FetchCategoryRaises
    \/ FetchReturn
    \/ FetchDone
    \/ GenAwaitInit
    \/ GenReinit
    \/ GenStory
    \/ GrpcReceive
    \/ GrpcMood
    \/ GrpcTheme
    \/ GrpcRespond
    \/ SvcReceive
    \/ SvcValidate
    \/ SvcFetchRaises
    \/ SvcGenerate
    \/ SvcRespond
    \/ Finish

Spec == Init /\ [][Next]_vars

(***************************************************************************)
(* llm_engine.py: generate_story called by several tasks on one engine.    *)
(* A call's position: "idle" (not running), "init_wait" (suspended in      *)
(* await self.init_task), "reinit" (suspended in the handshake request of  *)
(* its own initialize()), "story" (suspended in the story request),        *)
(* "returned", "failed".  waited: the call was suspended on init_task;     *)
(* handshake: the call sent a handshake request of its own.                *)
(***************************************************************************)
\* initialize() called by generate_story, up to its handshake request: where the
\* call is next, and the session it leaves
RetryPosition == IF is_initialized THEN "story" ELSE "reinit"
RetrySession == IF is_initialized THEN session ELSE "open"

\* CallArrive with a failed initialization task treated as final: the call fails
\* at once and no handshake is sent
CallArrive_FailedIsFinal ==
    /\ UNCHANGED <<handler, pc, request_vars, is_initialized, init_task, mood_run, call_vars>>
    /\ \E c \in Callers :
         /\ callers[c].pc = "idle"
         /\ IF is_initialized \/ init_task = "done"
            THEN /\ callers' = [callers EXCEPT ![c].pc = "story"]
                 /\ UNCHANGED session
            ELSE IF init_task \in {"pending", "running"}
            THEN /\ callers' = [callers EXCEPT ![c].pc = "init_wait", ![c].waited = TRUE]
                 /\ UNCHANGED session
            ELSE /\ callers' = [callers EXCEPT ![c].pc = "failed"]
                 /\ UNCHANGED session

\* generate_story up to its first suspension: "if not self.is_initialized",
\* "await self.init_task" (which does not suspend on a finished task), and on
\* its failure initialize() up to the handshake request
CallArrive ==
    /\ UNCHANGED <<handler, pc, request_vars, is_initialized, init_task, mood_run, call_vars>>
    /\ \E c \in Callers :
         /\ callers[c].pc = "idle"
         /\ IF is_initialized \/ init_task = "done"
            THEN /\ callers' = [callers EXCEPT ![c].pc = "story"]
                 /\ UNCHANGED session
            ELSE IF init_task \in {"pending", "running"}
            THEN /\ callers' = [callers EXCEPT ![c].pc = "init_wait", ![c].waited = TRUE]
                 /\ UNCHANGED session
            ELSE /\ callers' = [callers EXCEPT ![c].pc = RetryPosition,
                                               ![c].handshake = ~is_initialized]
                 /\ session' = RetrySession

\* the call resumes from "await self.init_task" when the task has ended
CallWake ==
    /\ UNCHANGED <<handler, pc, request_vars, is_initialized, init_task, mood_run, call_vars>>
    /\ \E c \in Callers :
         /\ callers[c].pc = "init_wait"
         /\ init_task \in {"done", "failed"}
         /\ IF init_task = "done"
            THEN /\ callers' = [callers EXCEPT ![c].pc = "story"]
                 /\ UNCHANGED session
            ELSE /\ callers' = [callers EXCEPT ![c].pc = RetryPosition,
                                               ![c].handshake = ~is_initialized]
                 /\ session' = RetrySession

\* the call's own initialize() from the handshake's answer on
CallReinit ==
    /\ UNCHANGED <<handler, pc, request_vars, init_task, mood_run, call_vars>>
    /\ \E c \in Callers, ok \in BOOLEAN :
         /\ callers[c].pc = "reinit"
         /\ IF ok
            THEN /\ is_initialized' = TRUE
                 /\ callers' = [callers EXCEPT ![c].pc = "story"]
                 /\ UNCHANGED session
            ELSE /\ session' = "closed"
                 /\ callers' = [callers EXCEPT ![c].pc = "failed"]
                 /\ UNCHANGED is_initialized

\* the story request and the return of the dictionary, or RuntimeError
CallStory ==
    /\ UNCHANGED <<handler, pc, request_vars, engine_vars, mood_run, call_vars>>
    /\ \E c \in Callers,
          answer \in (IF session = "open"
                      THEN StoryAnswers
                      ELSE {a \in StoryAnswers : a.kind = "exception"}) :
         /\ callers[c].pc = "story"
         /\ callers' = [callers EXCEPT ![c].pc = IF StoryOk(answer) THEN "returned"
                                                 ELSE "failed"]

\* the call is over
CallEnd ==
    /\ UNCHANGED <<handler, pc, request_vars, engine_vars, mood_run, call_vars>>
    /\ \E c \in Callers :
         /\ callers[c].pc \in {"returned", "failed"}
         /\ callers' = [callers EXCEPT ![c] = NoCall]

EngineNext ==
    \/ InitTaskStart
    \/ InitTaskFinish
    \/ CallArrive
    \/ CallWake
    \/ CallReinit
    \/ CallStory
    \/ CallEnd

EngineSpec == Init /\ [][EngineNext]_vars

\* the event loop runs every task that can run: the initialization task starts,
\* a call whose awaited task has ended resumes, a call that has its result
\* returns.  When the backend answers a request, and whether it does, and when
\* a new call arrives, is not the program's to decide.
EngineFairSpec ==
    /\ EngineSpec
    /\ WF_vars(InitTaskStart)
    /\ WF_vars(CallWake)
    /\ WF_vars(CallEnd)

(***************************************************************************)
(* mood_recognizer.py: recognize_mood called with one path or a list.      *)
(***************************************************************************)
\* "if isinstance(image_path, str): image_path = [image_path]", "moods = []"
MoodCall ==
    /\ UNCHANGED <<handler, pc, request_vars, engine_vars, callers, call_vars>>
    /\ mood_run.pc = "idle"
    /\ \/ \E a \in DirectAnalyses :
            mood_run' = [pc |-> "loop", image_path |-> <<a>>, moods |-> <<>>]
       \/ \E as \in SeqsUpTo(DirectAnalyses, MaxImages) :
            mood_run' = [pc |-> "loop", image_path |-> as, moods |-> <<>>]

\* one iteration of "for path in image_path"
MoodPath ==
    /\ UNCHANGED <<handler, pc, request_vars, engine_vars, callers, call_vars>>
    /\ mood_run.pc = "loop"
    /\ Len(mood_run.moods) < Len(mood_run.image_path)
    /\ mood_run' = [mood_run EXCEPT
                      !.moods = Append(@, recognize_mood(
                                    mood_run.image_path[Len(mood_run.moods) + 1]))]

\* "return moods"
MoodReturn ==
    /\ UNCHANGED <<handler, pc, request_vars, engine_vars, callers, call_vars>>
    /\ mood_run.pc = "loop"
    /\ Len(mood_run.moods) = Len(mood_run.image_path)
    /\ mood_run' = [mood_run EXCEPT !.pc = "returned"]

\* the caller has the list
MoodDone ==
    /\ UNCHANGED <<handler, pc, request_vars, engine_vars, callers, call_vars>>
    /\ mood_run.pc = "returned"
    /\ mood_run' = NoMoodRun

MoodNext ==
    \/ MoodCall
    \/ MoodPath
    \/ MoodReturn
    \/ MoodDone

MoodSpec == Init /\ [][MoodNext]_vars

(***************************************************************************)
(* trends_fetcher.py: fetch_trends called directly, with the provider's    *)
(* answers to its requests kept beside its locals.                         *)
(***************************************************************************)
\* the article lists a provider answer of status 200 may carry: none; two in
\* the window (one at its edge); the same two titles in the other order, one
\* of them twice, each also in an article outside the window; none that gives
\* a topic (a
\* blocklisted title, a missing title, a missing and an unparsable date, a date
\* in the future, a date too old)
FetchArticleLists ==
    { <<>>,
      <<Article("Trend A", "date", 0), Article("Trend B", "date", StaleDays)>>,
      <<Article("Trend B", "date", 0), Article("Trend A", "date", StaleDays + 1),
        Article("Trend B", "date", 0), Article("Trend A", "date", 0),
        Article("Trend B", "date", -1)>>,
      <<Article("NASDAQ closes higher", "date", 0), Article("", "date", 0),
        Article("Trend A", "none", 0), Article("Trend A", "invalid", 0),
        Article("Trend A", "date", -1), Article("Trend B", "date", StaleDays + 1)>> }

\* requests.get(url, params) in a direct call: a transport error, or a status
\* with a body
FetchAnswers ==
    { [kind |-> "exception", status |-> 0, articles |-> <<>>],
      [kind |-> "http", status |-> 500, articles |-> <<>>] }
    \cup { [kind |-> "http", status |-> 200, articles |-> as] : as \in FetchArticleLists }

\* fetch_news itself raises (the loader installed by the tests), or
\* run_in_executor does
RaisedAnswer == [kind |-> "raise", status |-> 0, articles |-> <<>>]

\* trends_fetcher.py: the sort_by argument of the fetch_news calls of a source
SortBy(phase) == IF phase = "youtube" THEN "popularity" ELSE "relevancy"

\* the body of "for category in categories": all_trends after the answers
RECURSIVE AllTrends(_)
AllTrends(answers) ==
    IF answers = <<>> THEN <<>>
    ELSE CategoryTrends(fetch_news(Head(answers))) \o AllTrends(Tail(answers))

\* a source fetch that forwards what a provider call raises
SourceFetch_Propagates(answers, limit) ==
    IF \E i \in 1..Len(answers) : answers[i].kind = "raise"
    THEN [raised |-> TRUE, trends |-> <<>>]
    ELSE [raised |-> FALSE, trends |-> UniqueLimited(AllTrends(answers), limit)]

\* trends_fetcher.py: the try and except of a source fetch, given the answers
\* to its provider calls: "except Exception" returns []
SourceFetch(answers, limit) ==
    IF \E i \in 1..Len(answers) : answers[i].kind = "raise"
    THEN [raised |-> FALSE, trends |-> <<>>]
    ELSE [raised |-> FALSE, trends |-> UniqueLimited(AllTrends(answers), limit)]

\* trends_fetcher.py: _fetch_youtube_trends
fetch_youtube_trends(answers, limit) == SourceFetch(answers, limit)

\* trends_fetcher.py: _fetch_google_trends
fetch_google_trends(answers, limit) == SourceFetch(answers, limit)

\* the source fetch has made all its provider calls, or one of them raised
SourceFetchOver(answers) ==
    \/ Len(answers) = NumSampled
    \/ \E i \in 1..Len(answers) : answers[i].kind = "raise"

\* fetch_trends(source, limit) up to the first provider request
FetchRunCall ==
    /\ UNCHANGED <<handler, pc, request_vars, engine_vars, callers, mood_run,
                   story_run, init_run, retry_run>>
    /\ fetch_run.pc = "idle"
    /\ \E source \in Sources, limit \in Limits :
         fetch_run' = [NoFetchRun EXCEPT
                         !.pc = "loop",
                         !.source = source,
                         !.limit = limit,
                         !.phase = FirstFetch(source),
                         !.sublimit = IF source = "all" THEN AllYoutubeLimit(limit)
                                      ELSE limit]

\* one provider call of "for category in categories" and its answer
FetchRunCategory ==
    /\ UNCHANGED <<handler, pc, request_vars, engine_vars, callers, mood_run,
                   story_run, init_run, retry_run>>
    /\ fetch_run.pc = "loop"
    /\ ~SourceFetchOver(fetch_run.answers)
    /\ \E resp \in FetchAnswers :
         fetch_run' = [fetch_run EXCEPT
                         !.answers = Append(@, resp),
                         !.asked = Append(@, SortBy(fetch_run.phase))]

\* one provider call of "for category in categories" that raises
FetchRunCategoryRaises ==
    /\ UNCHANGED <<handler, pc, request_vars, engine_vars, callers, mood_run,
                   story_run, init_run, retry_run>>
    /\ fetch_run.pc = "loop"
    /\ ~SourceFetchOver(fetch_run.answers)
    /\ fetch_run' = [fetch_run EXCEPT
                       !.answers = Append(@, RaisedAnswer),
                       !.asked = Append(@, SortBy(fetch_run.phase))]

\* the end of a source fetch, and fetch_trends' use of what it returns
FetchRunReturn ==
    /\ UNCHANGED <<handler, pc, request_vars, engine_vars, callers, mood_run,
                   story_run, init_run, retry_run>>
    /\ fetch_run.pc = "loop"
    /\ SourceFetchOver(fetch_run.answers)
    /\ LET returned == IF fetch_run.phase = "youtube"
                       THEN fetch_youtube_trends(fetch_run.answers, fetch_run.sublimit)
                       ELSE fetch_google_trends(fetch_run.answers, fetch_run.sublimit)
       IN  IF returned.raised
           THEN fetch_run' = [fetch_run EXCEPT !.pc = "raised"]
           ELSE IF fetch_run.source = "all" /\ fetch_run.phase = "youtube"
           THEN fetch_run' = [fetch_run EXCEPT
                                !.phase = "google",
                                !.sublimit = AllGoogleLimit(fetch_run.limit,
                                                            returned.trends),
                                !.answers = <<>>,
                                !.youtube_answers = fetch_run.answers,
                                !.youtube_trends = returned.trends]
           ELSE fetch_run' = [fetch_run EXCEPT
                                !.pc = "returned",
                                !.topics = IF fetch_run.source = "all"
                                           THEN CombineAll(fetch_run.youtube_trends,
                                                           returned.trends,
                                                           fetch_run.limit)
                                           ELSE returned.trends]

\* the caller has the list
FetchRunDone ==
    /\ UNCHANGED <<handler, pc, request_vars, engine_vars, callers, mood_run,
                   story_run, init_run, retry_run>>
    /\ fetch_run.pc = "returned"
    /\ fetch_run' = NoFetchRun

FetchNext ==
    \/ FetchRunCall
    \/ FetchRunCategory
    \/ FetchRunCategoryRaises
    \/ FetchRunReturn
    \/ FetchRunDone

FetchSpec == Init /\ [][FetchNext]_vars

(***************************************************************************)
(* llm_engine.py: generate_story(topics, theme, mood) called directly, one *)
(* call at a time, with the requests it sends kept beside its locals.      *)
(* None is "None"; "not x" holds of None and of the empty string.          *)
(***************************************************************************)
\* the topic lists, themes and moods a direct call may pass
StoryTopics == {<<>>, <<"Trend A">>, <<"Trend B", "Trend A">>, <<"Trend A", "Trend A">>}
StoryThemes == {"None", "", " ", "comedy", "sci-fi", "not-a-real-theme"}
StoryMoods == {"None", "", "happy"}

\* "not x" for an optional string
Falsy(x) == x \in {"None", ""}

\* generate_story: "if mood and not theme"
AsksForTheme(theme, mood) == ~Falsy(mood) /\ Falsy(theme)

\* StoryPosts with a second request after a failed one
StoryPosts_RetryOnce(answer) ==
    IF StoryOk(answer) THEN <<"story">> ELSE <<"story", "story">>

\* generate_story: the story requests sent: one self.session.post inside try
StoryPosts(answer) == <<"story">>

\* generate_story up to its first suspension: "if not self.is_initialized",
\* "await self.init_task", and on its failure initialize() up to the handshake
StoryCall ==
    /\ UNCHANGED <<handler, pc, request_vars, is_initialized, init_task, callers,
                   mood_run, fetch_run, init_run, retry_run>>
    /\ story_run.pc = "idle"
    /\ \E topics_ \in StoryTopics, theme \in StoryThemes, mood \in StoryMoods :
         LET run == [NoStoryRun EXCEPT !.topics = topics_, !.theme = theme, !.mood = mood]
         IN  IF is_initialized \/ init_task = "done"
             THEN /\ story_run' = [run EXCEPT !.pc = "theme"]
                  /\ UNCHANGED session
             ELSE IF init_task \in {"pending", "running"}
             THEN /\ story_run' = [run EXCEPT !.pc = "init_wait"]
                  /\ UNCHANGED session
             ELSE /\ story_run' = [run EXCEPT !.pc = "reinit", !.posts = <<"handshake">>]
                  /\ session' = "open"

\* the call resumes from "await self.init_task" when the task has ended
StoryWake ==
    /\ UNCHANGED <<handler, pc, request_vars, is_initialized, init_task, callers,
                   mood_run, fetch_run, init_run, retry_run>>
    /\ story_run.pc = "init_wait"
    /\ init_task \in {"done", "failed"}
    /\ IF init_task = "done"
       THEN /\ story_run' = [story_run EXCEPT !.pc = "theme"]
            /\ UNCHANGED session
       ELSE /\ story_run' = [story_run EXCEPT !.pc = "reinit", !.posts = <<"handshake">>]
            /\ session' = "open"

\* the call's own initialize() from the handshake's answer on
StoryReinit ==
    /\ UNCHANGED <<handler, pc, request_vars, init_task, callers, mood_run, fetch_run,
                   init_run, retry_run>>
    /\ story_run.pc = "reinit"
    /\ \E ok \in BOOLEAN :
         IF ok
         THEN /\ is_initialized' = TRUE
              /\ story_run' = [story_run EXCEPT !.pc = "theme"]
              /\ UNCHANGED session
         ELSE /\ session' = "closed"
              /\ story_run' = [story_run EXCEPT !.pc = "raised",
                                                !.result = InitFailedResult]
              /\ UNCHANGED is_initialized

\* "if mood and not theme: theme = await self.select_theme_for_mood(mood)",
\* "elif not theme: theme = 'comedy'"
StoryTheme ==
    /\ UNCHANGED <<handler, pc, request_vars, engine_vars, callers, mood_run, fetch_run,
                   init_run, retry_run>>
    /\ story_run.pc = "theme"
    /\ LET asks == AsksForTheme(story_run.theme, story_run.mood)
       IN  \E answer \in (IF ~asks THEN {NoAnswer}
                          ELSE IF session = "open" THEN ThemeAnswers
                          ELSE {a \in ThemeAnswers : a.kind = "exception"}) :
             story_run' = [story_run EXCEPT
                 !.pc = "post",
                 !.theme_answer = answer,
                 !.llm_theme = IF asks THEN select_theme_for_mood(session, answer)
                               ELSE "None",
                 !.used_theme =
                     GenerateTheme(IF Falsy(story_run.theme) THEN "" ELSE story_run.theme,
                                   IF Falsy(story_run.mood) THEN "None" ELSE story_run.mood,
                                   select_theme_for_mood(session, answer)),
                 !.posts = @ \o (IF asks THEN <<"theme">> ELSE <<>>)]

\* the story request and the returned dictionary, or RuntimeError
StoryPost ==
    /\ UNCHANGED <<handler, pc, request_vars, engine_vars, callers, mood_run, fetch_run,
                   init_run, retry_run>>
    /\ story_run.pc = "post"
    /\ \E answer \in (IF session = "open"
                      THEN StoryAnswers
                      ELSE {a \in StoryAnswers : a.kind = "exception"}) :
         story_run' = [story_run EXCEPT
             !.pc = IF StoryOk(answer) THEN "returned" ELSE "raised",
             !.story_answer = answer,
             !.posts = @ \o StoryPosts(answer),
             !.result = StoryResult(answer, story_run.used_theme, story_run.topics)]

\* the caller has the dictionary or the exception
StoryDone ==
    /\ UNCHANGED <<handler, pc, request_vars, engine_vars, callers, mood_run, fetch_run,
                   init_run, retry_run>>
    /\ story_run.pc \in {"returned", "raised"}
    /\ story_run' = NoStoryRun

StoryNext ==
    \/ InitTaskStart
    \/ InitTaskFinish
    \/ StoryCall
    \/ StoryWake
    \/ StoryReinit
    \/ StoryTheme
    \/ StoryPost
    \/ StoryDone

StorySpec == Init /\ [][StoryNext]_vars

(***************************************************************************)
(* llm_engine.py: initialize() called after the initialization task has    *)
(* ended, as generate_story calls it, one call at a time.  log keeps the   *)
(* handshake answer and the outcome of the calls that are over.            *)
(***************************************************************************)
\* aiohttp.ClientSession() raises, self.session.post raises, or the handshake
\* is answered with a status
HandshakeAnswers ==
    { [kind |-> "session_error", status |-> 0], [kind |-> "exception", status |-> 0] }
    \cup { [kind |-> "http", status |-> st] : st \in {200, 201, 500} }

\* HandshakeOk with every 2xx status taken for success
HandshakeOk_Any2xx(answer) == answer.kind = "http" /\ answer.status \in 200..299

\* initialize: the handshake was answered and "response.status != 200" is false
HandshakeOk(answer) == answer.kind = "http" /\ answer.status = 200

\* initialize() up to its handshake request, or to its end when it sends none:
\* "if self.is_initialized: return", "self.session = aiohttp.ClientSession()"
InitializeCall ==
    /\ UNCHANGED <<handler, pc, request_vars, is_initialized, init_task, callers,
                   mood_run, fetch_run, story_run, retry_run>>
    /\ init_run.pc = "idle"
    /\ init_task \in {"done", "failed"}
    /\ Len(init_run.log) < MaxInitCalls
    /\ LET run == [init_run EXCEPT !.was_initialized = is_initialized]
       IN  IF is_initialized
           THEN /\ init_run' = [run EXCEPT !.pc = "returned"]
                /\ UNCHANGED session
           ELSE \/ /\ init_run' = [run EXCEPT !.pc = "handshake", !.created = TRUE,
                                              !.sent = 1]
                   /\ session' = "open"
                \/ /\ init_run' = [run EXCEPT
                                     !.pc = "raised",
                                     !.answer = [kind |-> "session_error", status |-> 0]]
                   /\ session' = IF session = "None" THEN "None" ELSE "closed"

\* initialize() from the handshake's answer on
InitializeAnswer ==
    /\ UNCHANGED <<handler, pc, request_vars, init_task, callers, mood_run, fetch_run,
                   story_run, retry_run>>
    /\ init_run.pc = "handshake"
    /\ \E answer \in {a \in HandshakeAnswers : a.kind # "session_error"} :
         IF HandshakeOk(answer)
         THEN /\ is_initialized' = TRUE
              /\ init_run' = [init_run EXCEPT !.pc = "returned", !.answer = answer]
              /\ UNCHANGED session
         ELSE /\ session' = "closed"
              /\ init_run' = [init_run EXCEPT !.pc = "raised", !.answer = answer]
              /\ UNCHANGED is_initialized

\* the caller has the return or the RuntimeError
InitializeDone ==
    /\ UNCHANGED <<handler, pc, request_vars, engine_vars, callers, mood_run, fetch_run,
                   story_run, retry_run>>
    /\ init_run.pc \in {"returned", "raised"}
    /\ init_run' = [NoInitRun EXCEPT
                      !.log = Append(init_run.log,
                                     [answer |-> init_run.answer, outcome |-> init_run.pc])]

InitNext ==
    \/ InitTaskStart
    \/ InitTaskFinish
    \/ InitializeCall
    \/ InitializeAnswer
    \/ InitializeDone

InitSpec == Init /\ [][InitNext]_vars

(***************************************************************************)
(* utils.py: retry_async(func, max_retries, delay, backoff_factor,         *)
(* exceptions).  An outcome of func is a returned value, an exception of   *)
(* the exceptions tuple, or another exception.                             *)
(***************************************************************************)
\* what one call of func may do
FuncOutcomes ==
    { [kind |-> "return", value |-> v] : v \in {"a", "b"} }
    \cup { [kind |-> "listed", value |-> e] : e \in {"ConnectionError", "TimeoutError"} }
    \cup { [kind |-> "other", value |-> "KeyError"] }

\* "retries = 0", "current_delay = delay", up to the first call of func
RetryCall ==
    /\ UNCHANGED <<handler, pc, request_vars, engine_vars, callers, mood_run, fetch_run,
                   story_run, init_run>>
    /\ retry_run.pc = "idle"
    /\ \E max_retries \in 0..MaxRetries, delay \in {1, 2} :
         retry_run' = [NoRetryRun EXCEPT !.pc = "func", !.max_retries = max_retries,
                                         !.current_delay = delay]

\* "return await func()", and the except branch up to the sleep or the raise
RetryAttempt ==
    /\ UNCHANGED <<handler, pc, request_vars, engine_vars, callers, mood_run, fetch_run,
                   story_run, init_run>>
    /\ retry_run.pc = "func"
    /\ \E outcome \in FuncOutcomes :
         LET run == [retry_run EXCEPT !.outcomes = Append(@, outcome)]
         IN  IF outcome.kind = "return"
             THEN retry_run' = [run EXCEPT !.pc = "returned", !.result = outcome.value]
             ELSE IF outcome.kind = "other"
             THEN retry_run' = [run EXCEPT !.pc = "raised", !.result = outcome.value]
             ELSE IF retry_run.retries + 1 >= retry_run.max_retries
             THEN retry_run' = [run EXCEPT !.pc = "raised", !.result = outcome.value,
                                           !.retries = @ + 1]
             ELSE retry_run' = [run EXCEPT !.pc = "sleep", !.retries = @ + 1]

\* "await asyncio.sleep(current_delay)", "current_delay *= backoff_factor"
RetrySleep ==
    /\ UNCHANGED <<handler, pc, request_vars, engine_vars, callers, mood_run, fetch_run,
                   story_run, init_run>>
    /\ retry_run.pc = "sleep"
    /\ retry_run' = [retry_run EXCEPT !.pc = "func",
                                      !.slept = Append(@, retry_run.current_delay),
                                      !.current_delay = @ * backoff_factor]

\* the caller has the result or the exception
RetryDone ==
    /\ UNCHANGED <<handler, pc, request_vars, engine_vars, callers, mood_run, fetch_run,
                   story_run, init_run>>
    /\ retry_run.pc \in {"returned", "raised"}
    /\ retry_run' = NoRetryRun

RetryNext ==
    \/ RetryCall
    \/ RetryAttempt
    \/ RetrySleep
    \/ RetryDone

RetrySpec == Init /\ [][RetryNext]_vars

(***************************************************************************)
(* What the claims speak of.                                               *)
(***************************************************************************)
\* a Generate handler has returned or raised
Completed == pc = "done" /\ handler \in {"grpc", "service"}

\* generate_story returned a story, the handler built its response from it,
\* and no abort was invoked
Succeeded == Completed /\ result.kind = "ok" /\ aborts = <<>>

\* the status code the request ends with: the code set on the context, and for
\* service.py the code of the first abort
RpcStatus ==
    IF handler = "service"
    THEN IF aborts = <<>> THEN "OK" ELSE aborts[1]
    ELSE ctx_code

\* the story request was sent and did not succeed
StoryRequestFailed ==
    \/ story_answer.kind = "exception"
    \/ story_answer.kind = "http" /\ story_answer.status # 200

\* the request has ended in failure as its caller sees it; an abort that
\* returns (a context that is not the grpc runtime's) ends nothing
FailureOutcome ==
    \/ ctx_code # "OK"
    \/ response.status_code # 0
    \/ response.kind = "raised"
    \/ aborts # <<>> /\ req.abort_raises

(***************************************************************************)
(* C1: a successful request with a supported theme reports exactly that    *)
(* theme in the response metadata, and generate_story was given it,        *)
(* whatever mood was detected.                                             *)
(***************************************************************************)
C1_RequestedThemeReported ==
    (Succeeded /\ req.theme # "" /\ req.theme \in SUPPORTED_THEMES)
        => (response.theme = req.theme /\ result.theme = req.theme)

\* a request with theme sci-fi and a detected mood has succeeded
C1_Witness ==
    /\ Succeeded
    /\ handler = "grpc"
    /\ req.theme = "sci-fi"
    /\ detected_mood = "happy"
    /\ response.theme = "sci-fi"

(***************************************************************************)
(* C2: for every requested theme and detected mood, the theme used for     *)
(* generation and reported in the metadata of a successful response is a   *)
(* supported theme.                                                        *)
(***************************************************************************)
C2_ReportedThemeSupported ==
    Succeeded => (response.theme \in SUPPORTED_THEMES /\ result.theme \in SUPPORTED_THEMES)

(***************************************************************************)
(* C3: whenever the backend was asked to select the theme, the theme       *)
(* selected is a supported one: the backend's token, trimmed and           *)
(* lower-cased, when the answer has status 200 and that token is           *)
(* supported, and comedy for any other answer.                             *)
(***************************************************************************)
C3_SelectedThemeSupported ==
    theme_answer.kind # "none" =>
        LET token == Lower(Strip(theme_answer.text))
            usable == /\ theme_answer.kind = "http"
                      /\ theme_answer.status = 200
                      /\ InSupportedThemes(token)
        IN  /\ selected_theme \in SUPPORTED_THEMES
            /\ usable => ThemeChars[selected_theme] = token
            /\ ~usable => selected_theme = "comedy"

\* the backend answered " Tragedy\n" and tragedy was selected
C3_Witness ==
    /\ theme_answer.kind = "http"
    /\ theme_answer.text = <<" ", "T", "r", "a", "g", "e", "d", "y", "\n">>
    /\ selected_theme = "tragedy"
    /\ req.theme = ""
    /\ detected_mood = "negative"

(***************************************************************************)
(* C4: a request of grpc_server.py with an empty theme and no detectable   *)
(* mood (no image, a classifier that raises or gives nothing, or the       *)
(* low-confidence fallback to neutral) gets the theme comedy.              *)
(***************************************************************************)
C4_NoMoodGivesComedy ==
    ( /\ handler = "grpc"
      /\ selected_theme # ""
      /\ req.theme = ""
      /\ analysis \in {"none", "raise", "empty", "noemotions", "low"} )
        => selected_theme = "comedy"

(***************************************************************************)
(* C5: a request with a non-empty unsupported theme ends with              *)
(* INVALID_ARGUMENT and has made no downstream call.                       *)
(***************************************************************************)
C5_UnsupportedThemeRejected ==
    (Completed /\ req.theme # "" /\ req.theme \notin SUPPORTED_THEMES)
        => (RpcStatus = "INVALID_ARGUMENT" /\ calls = <<>>)

(***************************************************************************)
(* C6: when every call to the trend provider has failed, the request of    *)
(* grpc_server.py (with a positive limit) still ends with a non-empty      *)
(* topics_used and status code 0, unless story generation failed.          *)
(***************************************************************************)
C6_FallbackTopicsUsed ==
    ( /\ handler = "grpc"
      /\ pc = "done"
      /\ req.limit > 0
      /\ "fetch_trends" \in Range(calls)
      /\ ~fetch.provider_ok )
        => \/ result.kind = "error"
           \/ /\ response.topics_used # <<>>
              /\ response.status_code = 0
              /\ ctx_code = "OK"

(***************************************************************************)
(* C7: a request (with a positive limit) for which no topics were obtained *)
(* ends with INVALID_ARGUMENT, and generate_story is never called with an  *)
(* empty topic list.                                                       *)
(***************************************************************************)
C7_NoTopicsRejected ==
    /\ ( /\ Completed
         /\ req.limit > 0
         /\ "fetch_trends" \in Range(calls)
         /\ fetch.phase = "none"
         /\ topics = <<>> )
           => RpcStatus = "INVALID_ARGUMENT"
    /\ (req.limit > 0 /\ "generate_story" \in Range(calls)) => topics # <<>>

(***************************************************************************)
(* C8: for every source selector and positive limit, fetch_trends returns  *)
(* at most limit topics, no two of them equal.                             *)
(***************************************************************************)
C8_AtMostLimitNoDuplicates ==
    (pc = "fetched" /\ fetch.limit > 0)
        => (Len(topics) <= fetch.limit /\ NoDuplicates(topics))

(***************************************************************************)
(* C9: when the story request to the backend fails, the request ends with  *)
(* INTERNAL and without story text; and no request that ends in failure    *)
(* carries a story.                                                        *)
(***************************************************************************)
C9_BackendFailureIsInternal ==
    /\ (Completed /\ StoryRequestFailed) =>
           /\ response.story = ""
           /\ handler = "grpc" => (ctx_code = "INTERNAL" /\ response.status_code # 0)
           /\ handler = "service" =>
                 /\ "INTERNAL" \in Range(aborts)
                 /\ req.abort_raises => RpcStatus = "INTERNAL"
    /\ (Completed /\ FailureOutcome) => response.story = ""

\* the backend answered the story request with status 500
C9_Witness ==
    /\ Completed
    /\ handler = "grpc"
    /\ story_answer.kind = "http"
    /\ story_answer.status = 500
    /\ ctx_code = "INTERNAL"
    /\ response.story = ""

(***************************************************************************)
(* C10: in every response of Generate the status code is 0 exactly when    *)
(* the request succeeded, and a failed request's response has a non-zero   *)
(* status code and an error message.                                       *)
(***************************************************************************)
C10_StatusCodeTellsSuccess ==
    (Completed /\ response.kind = "message") =>
        /\ response.status_code = 0 <=> result.kind = "ok"
        /\ result.kind # "ok" =>
               (response.status_code # 0 /\ response.error_message # "")

(***************************************************************************)
(* The engine as the claims on initialization see it.                      *)
(***************************************************************************)
\* the handshake requests in flight: the initialization task's and each call's
HandshakesInFlight ==
    (IF init_task = "running" THEN 1 ELSE 0)
    + Cardinality({c \in Callers : callers[c].pc = "reinit"})

(***************************************************************************)
(* C11: the generate_story calls that find the engine not initialized all  *)
(* wait on one initialization: at no time are two handshake requests in    *)
(* flight at once, also after the initialization task has failed.          *)
(***************************************************************************)
C11_OneSharedInitialization == HandshakesInFlight <= 1

(***************************************************************************)
(* C12: no request is sent to the backend for a theme or for a story       *)
(* before the handshake has succeeded: a theme answer or a story answer    *)
(* received from the backend implies an initialized engine.                *)
(* (is_initialized never goes back to FALSE, so an engine that is not      *)
(* initialized now was not when the request was sent.)                     *)
(***************************************************************************)
C12_NoBackendCallBeforeReady ==
    /\ theme_answer.kind = "http" => is_initialized
    /\ story_answer.kind = "http" => is_initialized

AdapterState ==
    IF is_initialized THEN "Ready"
    ELSE IF init_task = "pending" THEN "Uninitialized"
    ELSE IF HandshakesInFlight > 0 THEN "Initializing"
    ELSE "Failed"

AdapterTransitions ==
    { <<"Uninitialized", "Initializing">>, <<"Initializing", "Ready">>,
      <<"Initializing", "Failed">>, <<"Failed", "Initializing">> }

(***************************************************************************)
(* C14: every step of the engine keeps to Uninitialized -> Initializing -> *)
(* Ready | Failed with Failed -> Initializing; Ready is kept for good; a   *)
(* generate_story call that starts or resumes while the adapter is Failed  *)
(* sends a new handshake; when that handshake succeeds the adapter is      *)
(* Ready and the call goes on to the story request, and when it fails the  *)
(* call fails and the adapter is not Ready, so the next call retries.      *)
(***************************************************************************)
C14_FailedIsRetried ==
    [][ /\ AdapterState' # AdapterState
            => <<AdapterState, AdapterState'>> \in AdapterTransitions
        /\ is_initialized => is_initialized'
        /\ \A c \in Callers :
             /\ ( /\ AdapterState = "Failed"
                  /\ callers[c].pc \in {"idle", "init_wait"}
                  /\ callers'[c].pc # callers[c].pc )
                    => (callers'[c].pc = "reinit" /\ AdapterState' = "Initializing")
             /\ (callers[c].pc = "reinit" /\ callers'[c].pc # "reinit")
                    => \/ callers'[c].pc = "story" /\ AdapterState' = "Ready"
                       \/ /\ callers'[c].pc = "failed"
                          /\ is_initialized' = is_initialized
                          /\ AdapterState' \in {"Failed", "Initializing", "Ready"}
      ]_vars

\* after the initialization task failed, a call's own handshake succeeded and
\* the call is at its story request
C14_Witness ==
    /\ init_task = "failed"
    /\ is_initialized
    /\ \E c \in Callers : callers[c].pc = "story" /\ callers[c].handshake

\* in the request's downstream calls, every call a comes before every call b
CalledBefore(a, b) ==
    \A i, j \in 1..Len(calls) : (calls[i] = a /\ calls[j] = b) => i < j

(***************************************************************************)
(* C15: within a request the stages run in the order mood classification,  *)
(* theme resolution, topic fetch, story generation: the theme-selection    *)
(* call to the backend comes before the call of fetch_trends, and when the *)
(* theme is to be selected by the backend it has been selected by the time *)
(* the fetch starts; generate_story is called after both.                  *)
(***************************************************************************)
C15_StagesInOrder ==
    handler \in {"grpc", "service"} =>
        /\ CalledBefore("recognize_mood", "select_theme")
        /\ CalledBefore("recognize_mood", "fetch_trends")
        /\ CalledBefore("select_theme", "fetch_trends")
        /\ CalledBefore("select_theme", "generate_story")
        /\ CalledBefore("fetch_trends", "generate_story")
        /\ ( /\ AsksBackendForTheme(req.theme, detected_mood)
             /\ "fetch_trends" \in Range(calls) )
               => "select_theme" \in Range(calls)

(***************************************************************************)
(* C16: a request of grpc_server.py that names an image is never rejected  *)
(* because of the image: when the file is missing or its classification    *)
(* fails, the request goes on with the mood neutral.                       *)
(***************************************************************************)
C16_MoodFailureNotSurfaced ==
    ( /\ handler = "grpc"
      /\ pc \notin {"idle", "mood"}
      /\ StripPath(req.image_path) # "" )
        => /\ ctx_code # "INVALID_ARGUMENT"
           /\ "fetch_trends" \in Range(calls)
           /\ analysis \in {"missing", "raise", "empty", "noemotions"}
                  => detected_mood = "neutral"
           /\ ~PathExists(StripPath(req.image_path)) => detected_mood = "neutral"

(***************************************************************************)
(* The moods and the lookup table as the spec gives them.                  *)
(***************************************************************************)
CanonicalMoods == {"happy", "sad", "angry", "anxious", "excited", "negative", "neutral"}

TableLabels == {"angry", "disgust", "fear", "happy", "sad", "surprise", "neutral"}

TableMood(label) ==
    IF label = "disgust" THEN "negative"
    ELSE IF label = "fear" THEN "anxious"
    ELSE IF label = "surprise" THEN "excited"
    ELSE label

\* mood is what the spec gives for the image: neutral for a failed or empty
\* classification; else, for a label of the largest confidence, neutral when
\* that confidence is at most 0.4 or the label is not in the table, and the
\* table's mood otherwise
MoodAsSpecified(a, mood) ==
    IF a.kind # "scores" THEN mood = "neutral"
    ELSE \E k \in 1..Len(a.emotions) :
           /\ \A j \in 1..Len(a.emotions) : a.emotions[j].conf <= a.emotions[k].conf
           /\ mood = IF \/ a.emotions[k].conf <= confidence_threshold
                        \/ a.emotions[k].label \notin TableLabels
                     THEN "neutral"
                     ELSE TableMood(a.emotions[k].label)

(***************************************************************************)
(* C17: recognize_mood returns one mood per image, in the order of the     *)
(* images, each a canonical mood and each the one specified for its image. *)
(***************************************************************************)
C17_OneMoodPerImage ==
    mood_run.pc = "returned" =>
        /\ Len(mood_run.moods) = Len(mood_run.image_path)
        /\ \A i \in 1..Len(mood_run.moods) :
             /\ mood_run.moods[i] \in CanonicalMoods
             /\ MoodAsSpecified(mood_run.image_path[i], mood_run.moods[i])

\* two images: the first classified as fear above the threshold, the second
\* with a classifier that raised
C17_Witness ==
    /\ mood_run.pc = "returned"
    /\ Len(mood_run.image_path) = 2
    /\ mood_run.image_path[1].kind = "scores"
    /\ mood_run.image_path[2].kind = "raise"
    /\ mood_run.moods = <<"anxious", "neutral">>

(***************************************************************************)
(* C18: a Generate handler never calls fetch_trends with a limit that is   *)
(* not positive: for a request limit of 0 or less it passes the default    *)
(* limit.                                                                  *)
(***************************************************************************)
C18_DefaultLimitSubstituted ==
    (handler \in {"grpc", "service"} /\ "fetch_trends" \in Range(calls))
        => /\ fetch.limit > 0
           /\ req.limit <= 0 => fetch.limit = DEFAULT_TRENDS_LIMIT

(***************************************************************************)
(* C19: a request to service.py whose source is empty or unsupported has   *)
(* context.abort invoked exactly once, with INVALID_ARGUMENT, whether or   *)
(* not abort raises.                                                       *)
(***************************************************************************)
C19_InvalidSourceAbortsOnce ==
    ( /\ handler = "service"
      /\ pc = "done"
      /\ (req.source = "" \/ req.source \notin SUPPORTED_SOURCES) )
        => aborts = <<"INVALID_ARGUMENT">>

(***************************************************************************)
(* C20: a valid request to service.py in which fetch_trends or             *)
(* generate_story raises RuntimeError has context.abort invoked exactly    *)
(* once, with INTERNAL, gets no success response, and after a failed fetch *)
(* generate_story is not called.                                           *)
(***************************************************************************)
C20_DownstreamErrorAbortsOnce ==
    ( /\ handler = "service"
      /\ pc = "done"
      /\ ValidationAborts(req.source, req.theme) = <<>>
      /\ (fetch.phase = "RuntimeError" \/ result.kind = "error") )
        => /\ aborts = <<"INTERNAL">>
           /\ response.kind = "message" => response = EmptyResponse
           /\ fetch.phase = "RuntimeError" => "generate_story" \notin Range(calls)

(***************************************************************************)
(* A direct call of fetch_trends as the claims on the fetch see it.        *)
(***************************************************************************)
\* the answers to all the provider calls of the call, of both sources for "all"
ProviderAnswers == fetch_run.youtube_answers \o fetch_run.answers

\* the provider call raised, got a transport error or a status outside 2xx,
\* or returned an empty list
ProviderCallFailed(a) ==
    \/ a.kind \in {"raise", "exception"}
    \/ a.kind = "http" /\ a.status \notin 200..299
    \/ a.kind = "http" /\ ~fetch_news(a).none /\ fetch_news(a).list = <<>>

\* the publish timestamp is neither in the future nor more than 30 days old
InWindow(article) == article.pub = "date" /\ article.age >= 0 /\ article.age <= 30

\* the title is not empty and contains no phrase of the blocklist
TitleAccepted(article) == article.title # "" /\ UnwantedPhraseIn[article.title] = ""

\* the titles of the accepted articles of the answers, in category order then
\* article order
RECURSIVE AcceptedOf(_)
AcceptedOf(articles) ==
    IF articles = <<>> THEN <<>>
    ELSE (IF InWindow(Head(articles)) /\ TitleAccepted(Head(articles))
          THEN <<Head(articles).title>> ELSE <<>>) \o AcceptedOf(Tail(articles))

RECURSIVE AcceptedTitles(_)
AcceptedTitles(answers) ==
    IF answers = <<>> THEN <<>>
    ELSE (IF Head(answers).kind = "http" /\ Head(answers).status = 200
          THEN AcceptedOf(Head(answers).articles) ELSE <<>>)
         \o AcceptedTitles(Tail(answers))

\* the first n elements of seq with every later occurrence of an element seen
\* before removed
RECURSIVE FirstSeen(_, _)
FirstSeen(seq, n) ==
    IF n = 0 THEN <<>>
    ELSE IF \E j \in 1..(n - 1) : seq[j] = seq[n]
         THEN FirstSeen(seq, n - 1)
         ELSE Append(FirstSeen(seq, n - 1), seq[n])

(***************************************************************************)
(* C21: fetch_trends never raises, for every source and limit; and it      *)
(* returns the empty list whenever every provider call of the call raised, *)
(* got a transport error or a non-2xx status, or returned an empty list.   *)
(***************************************************************************)
C21_FetchFailsSoft ==
    /\ fetch_run.pc # "raised"
    /\ ( /\ fetch_run.pc = "returned"
         /\ \A i \in 1..Len(ProviderAnswers) : ProviderCallFailed(ProviderAnswers[i]) )
           => fetch_run.topics = <<>>

\* source "all": a provider call of the first fetch raised, and the calls of
\* the second got a transport error, status 500 and an empty list
C21_Witness ==
    /\ fetch_run.pc = "returned"
    /\ fetch_run.source = "all"
    /\ fetch_run.limit = 2
    /\ \E i \in 1..Len(fetch_run.youtube_answers) :
         fetch_run.youtube_answers[i].kind = "raise"
    /\ Len(fetch_run.answers) = NumSampled
    /\ fetch_run.answers[1].kind = "exception"
    /\ fetch_run.answers[2].status = 500
    /\ fetch_run.answers[3].status = 200
    /\ \A i \in 1..Len(ProviderAnswers) : ProviderCallFailed(ProviderAnswers[i])
    /\ fetch_run.topics = <<>>

(***************************************************************************)
(* C25: for the source youtube or google and a positive limit, when no     *)
(* provider call raises, the result is the first limit elements of the     *)
(* accepted titles in category order then article order with every later   *)
(* occurrence of a title removed; so with at least limit distinct accepted *)
(* titles the result has exactly limit entries.                            *)
(***************************************************************************)
C25_FirstSeenUpToLimit ==
    ( /\ fetch_run.pc = "returned"
      /\ fetch_run.source \in {"youtube", "google"}
      /\ fetch_run.limit > 0
      /\ \A i \in 1..Len(fetch_run.answers) : fetch_run.answers[i].kind # "raise" )
        => LET accepted == AcceptedTitles(fetch_run.answers)
               distinct == FirstSeen(accepted, Len(accepted))
           IN  /\ fetch_run.topics =
                      SubSeq(distinct, 1, Min(fetch_run.limit, Len(distinct)))
               /\ Len(distinct) >= fetch_run.limit
                      => Len(fetch_run.topics) = fetch_run.limit

\* two categories gave the same two titles in different orders, the first of
\* them one title twice; the limit is 2
C25_Witness ==
    /\ fetch_run.pc = "returned"
    /\ fetch_run.source = "youtube"
    /\ fetch_run.limit = 2
    /\ Len(AcceptedTitles(fetch_run.answers)) = 5
    /\ fetch_run.answers[3].kind = "exception"
    /\ fetch_run.topics = <<"Trend B", "Trend A">>

(***************************************************************************)
(* C26: every topic fetch_trends returns is the title of an article of a   *)
(* provider answer whose publish timestamp is neither in the future nor    *)
(* more than 30 days old; and the date filter of fetch_news keeps every    *)
(* article with a timestamp in that window and an accepted title.          *)
(***************************************************************************)
C26_OnlyArticlesInWindow ==
    /\ fetch_run.pc = "returned" =>
         \A k \in 1..Len(fetch_run.topics) :
           \E i \in 1..Len(ProviderAnswers) :
             /\ ProviderAnswers[i].kind = "http"
             /\ ProviderAnswers[i].status = 200
             /\ \E j \in 1..Len(ProviderAnswers[i].articles) :
                  /\ ProviderAnswers[i].articles[j].title = fetch_run.topics[k]
                  /\ InWindow(ProviderAnswers[i].articles[j])
    /\ \A i \in 1..Len(ProviderAnswers) :
         (ProviderAnswers[i].kind = "http" /\ ProviderAnswers[i].status = 200) =>
           \A j \in 1..Len(ProviderAnswers[i].articles) :
             ( /\ InWindow(ProviderAnswers[i].articles[j])
               /\ TitleAccepted(ProviderAnswers[i].articles[j]) )
                 => ProviderAnswers[i].articles[j]
                      \in Range(fetch_news(ProviderAnswers[i]).list)

\* an answer whose articles are all outside the window or without a usable
\* date, then one with each title both inside and outside the window: the
\* topics are those of the articles inside
C26_Witness ==
    /\ fetch_run.pc = "returned"
    /\ fetch_run.source = "google"
    /\ fetch_run.limit = 2
    /\ Len(fetch_run.answers) = NumSampled
    /\ Len(fetch_run.answers[1].articles) = 6
    /\ Len(fetch_run.answers[2].articles) = 5
    /\ fetch_run.answers[3].kind = "exception"
    /\ fetch_run.topics = <<"Trend B", "Trend A">>

(***************************************************************************)
(* C27: fetch_trends with a source selector other than youtube, google and *)
(* all does not raise, asks the provider as the google fetch does, and     *)
(* returns what the google fetch returns for the same limit and answers:   *)
(* both return the same function of limit and answers.                     *)
(***************************************************************************)
C27_UnknownSourceIsGoogle ==
    /\ fetch_run.source \notin {"", "youtube", "all"} => fetch_run.pc # "raised"
    /\ (fetch_run.pc = "returned" /\ fetch_run.source \notin {"youtube", "all"})
         => /\ fetch_run.topics =
                   fetch_google_trends(fetch_run.answers, fetch_run.limit).trends
            /\ \A i \in 1..Len(fetch_run.asked) : fetch_run.asked[i] = "relevancy"
            /\ Len(fetch_run.asked) = Len(fetch_run.answers)

\* the source "news" returned the one title its first answer carried in the
\* window
C27_Witness ==
    /\ fetch_run.pc = "returned"
    /\ fetch_run.source = "news"
    /\ fetch_run.limit = 1
    /\ fetch_run.asked = <<"relevancy", "relevancy", "relevancy">>
    /\ fetch_run.topics = <<"Trend A">>

\* the number of elements of seq equal to x
Count(seq, x) == Cardinality({i \in 1..Len(seq) : seq[i] = x})

(***************************************************************************)
(* C22: a generate_story call sends at most one story request; when the    *)
(* answer is a transport error or a status other than 200 the call raises  *)
(* RuntimeError, having sent that one request and no second.               *)
(***************************************************************************)
C22_OneStoryRequest ==
    /\ Count(story_run.posts, "story") <= 1
    /\ ( /\ story_run.pc \in {"returned", "raised"}
         /\ \/ story_run.story_answer.kind = "exception"
            \/ story_run.story_answer.kind = "http" /\ story_run.story_answer.status # 200 )
           => /\ story_run.pc = "raised"
              /\ story_run.result.kind = "error"
              /\ story_run.result.story = ""
              /\ Count(story_run.posts, "story") = 1

\* the backend answered the story request with status 500 and the call raised
C22_Witness ==
    /\ story_run.pc = "raised"
    /\ story_run.story_answer.kind = "http"
    /\ story_run.story_answer.status = 500
    /\ story_run.posts = <<"story">>
    /\ story_run.result.kind = "error"

(***************************************************************************)
(* C23: a generate_story call that returns gives the backend's response    *)
(* text as the story, the theme used as metadata.theme (the given theme    *)
(* when it is not empty, else what select_theme_for_mood returned when a   *)
(* mood is given, else comedy) and the given topics, unchanged and in      *)
(* order, as metadata.topics_used.                                         *)
(***************************************************************************)
C23_ResultCarriesInputs ==
    story_run.pc = "returned" =>
        /\ story_run.result.kind = "ok"
        /\ story_run.result.story = story_run.story_answer.text
        /\ story_run.result.topics_used = story_run.topics
        /\ story_run.result.theme =
               IF story_run.theme \notin {"None", ""} THEN story_run.theme
               ELSE IF story_run.mood \notin {"None", ""} THEN story_run.llm_theme
               ELSE "comedy"
        /\ (story_run.theme \in {"None", ""} /\ story_run.mood \notin {"None", ""})
               => /\ story_run.llm_theme \in SUPPORTED_THEMES
                  /\ Count(story_run.posts, "theme") = 1

\* no theme, the mood happy: the backend chose tragedy, and the story came
\* back with the two topics
C23_Witness ==
    /\ story_run.pc = "returned"
    /\ story_run.theme = "None"
    /\ story_run.mood = "happy"
    /\ story_run.topics = <<"Trend B", "Trend A">>
    /\ story_run.theme_answer.text = <<" ", "T", "r", "a", "g", "e", "d", "y", "\n">>
    /\ story_run.result.theme = "tragedy"
    /\ story_run.result.story = "A generated story."
    /\ story_run.result.topics_used = <<"Trend B", "Trend A">>

(***************************************************************************)
(* C24: a call of initialize that finds the engine not initialized ends    *)
(* with is_initialized true and a session that is not None exactly when    *)
(* its handshake was answered with status 200, and then it has sent one    *)
(* handshake request and returns; with any other status or an exception it *)
(* raises, has sent at most one request, leaves is_initialized false and   *)
(* the session it created closed.  A call that finds the engine            *)
(* initialized returns without sending a handshake.                        *)
(***************************************************************************)
C24_InitializeContract ==
    init_run.pc \in {"returned", "raised"} =>
        LET status200 == init_run.answer.kind = "http" /\ init_run.answer.status = 200
        IN  /\ ~init_run.was_initialized =>
                 /\ (is_initialized /\ session # "None") <=> status200
                 /\ status200 => (init_run.pc = "returned" /\ init_run.sent = 1)
                 /\ ~status200 =>
                        /\ init_run.pc = "raised"
                        /\ init_run.sent <= 1
                        /\ ~is_initialized
                        /\ init_run.created => session = "closed"
            /\ init_run.was_initialized =>
                 /\ init_run.pc = "returned"
                 /\ init_run.sent = 0
                 /\ is_initialized

\* after a call that raised on status 500, a call whose handshake was
\* answered with status 201 has raised and closed its session
C24_Witness ==
    /\ init_run.pc = "raised"
    /\ init_run.created
    /\ init_run.answer = [kind |-> "http", status |-> 201]
    /\ session = "closed"
    /\ ~is_initialized
    /\ Len(init_run.log) = 1
    /\ init_run.log[1].answer.status = 500

(***************************************************************************)
(* C29: whenever the engine is initialized its session is open, under any  *)
(* interleaving of generate_story calls and the initialize calls they      *)
(* make: the engine is never ready with a closed session or none.          *)
(***************************************************************************)
C29_ReadyHasOpenSession == is_initialized => session = "open"

(***************************************************************************)
(* C28: retry_async returns the value of the first call of func that       *)
(* returns and calls func no more; an exception outside the exceptions     *)
(* tuple is raised at once; func is called at most 1 + max_retries times,  *)
(* and an exception of the tuple is raised only when the first call and    *)
(* max_retries retries after it have all failed.                           *)
(***************************************************************************)
C28_RetriesBeforeRaising ==
    LET n == Len(retry_run.outcomes)
    IN  /\ n <= 1 + retry_run.max_retries
        /\ \A i \in 1..(n - 1) : retry_run.outcomes[i].kind = "listed"
        /\ retry_run.pc = "returned" =>
             /\ retry_run.outcomes[n].kind = "return"
             /\ retry_run.result = retry_run.outcomes[n].value
        /\ retry_run.pc = "raised" =>
             /\ retry_run.outcomes[n].kind \in {"listed", "other"}
             /\ retry_run.result = retry_run.outcomes[n].value
             /\ retry_run.outcomes[n].kind = "listed" => n = 1 + retry_run.max_retries

(***************************************************************************)
(* C30: within a request the backend is asked to select a theme at most    *)
(* once, by the handler or by generate_story, and only when the request's  *)
(* theme is empty and a mood was detected: a request with a non-empty      *)
(* theme or without a mood has no theme-selection call and no answer to    *)
(* one.                                                                    *)
(***************************************************************************)
C30_ThemeSelectedAtMostOnce ==
    handler \in {"grpc", "service"} =>
        /\ Count(calls, "select_theme") <= 1
        /\ "select_theme" \in Range(calls) => (req.theme = "" /\ detected_mood # "None")
        /\ (req.theme # "" \/ detected_mood = "None") => theme_answer.kind = "none"

\* a request without a theme and with the mood happy has ended: the handler
\* asked for the theme once, and generate_story sent the story request only
C30_Witness ==
    /\ handler = "grpc"
    /\ pc = "done"
    /\ req.theme = ""
    /\ detected_mood = "happy"
    /\ theme_answer.kind = "http"
    /\ result.kind = "ok"
    /\ Count(calls, "select_theme") = 1
    /\ Count(calls, "story_post") = 1

=============================================================================
